---- MODULE Spec2Model ----
(***************************************************************************)
(* Model of the backup orchestration of backup-api:                        *)
(*   src/modules/dockge.py   DockgeBackup.execute_backup and its phases    *)
(*   src/utils/ssh_client.py SSHClient (the remote session)                *)
(* Backup runs are executed one after the other against one machine; the   *)
(* remote scratch directory, the local destination tree and the wall clock *)
(* persist between runs, the per-run variables are reset by StartRun.      *)
(* The fields of the machine descriptor are drawn where the code reads     *)
(* them; the directories of the remote host are fixed.  Faults of the      *)
(* environment that are modelled: failing remote commands, transport       *)
(* faults, failing listings and transfers, a failing local mkdir, a        *)
(* failing chmod and failing local deletions; their number is bounded by   *)
(* MaxFaults.                                                              *)
(*   src/utils/config.py     ConfigManager (the registry, machines.yaml)   *)
(*   src/api.py              require_bearer_token and the endpoints        *)
(* The methods of the registry are called one at a time (RegistrySpec), by *)
(* the endpoints (ApiSpec) and by two handlers at a time (RegConcSpec).    *)
(* A read of machines.yaml can fail; a failing write is not modelled.      *)
(***************************************************************************)
EXTENDS Integers, Sequences, FiniteSets, TLC

\* ------------------------------------------------------------------ bounds
MaxRuns == 2
MaxClock == 2
MaxKeep == 1
\* Faults of the environment (a failing remote command, connection, listing,
\* transfer, local mkdir, chmod or deletion, an archive of implausible size)
\* over the runs together.
MaxFaults == 1
\* Ticks of the wall clock in one second: datetime.now() has sub-second
\* resolution, the timestamp token keeps whole seconds.
TicksPerSec == 2
\* Calls of connect and of close on a session that is used by itself.
MaxConnects == 2
MaxCloses == 2
\* Records in machines.yaml.
MaxMachines == 3
\* Pieces of an Authorization header.
MaxHeader == 3

\* ------------------------------------------------------- program constants
\* "Less than 100 bytes is suspicious"
MinSize == 100
\* machine_config.get("retention_count", 30)
DefaultRetention == 30

\* Sizes an archive can have (one below the threshold, one on it).
Sizes == {50, 100}

\* Names are sequences of characters, so that a leading dot can be seen.
AppName == <<"a", "p", "p">>
GitName == <<".", "g", "i", "t">>
StackNames == {AppName, GitName}
\* basename of self.dockge_dir
DockgeName == <<"d", "o", "c", "k", "g", "e">>

\* Exit codes of a remote command: 0, a failure of the command, and the
\* -1 exec_command returns on a transport fault.
ExitCodes == {0, 1, -1}

VARIABLES
    stacksRoot,     \* the stack directories of the remote host (/opt/stacks)
    dockgeDir,      \* the remote host has the secondary directory (/opt/dockge)
    now,            \* wall clock, in ticks
    rdirs,          \* per-source subdirectories of the remote scratch directory
    rfiles,         \* archives in the remote scratch directory
    local,          \* archives in the local destination tree
    runs,           \* number of runs started so far
    tokens,         \* the timestamp tokens of the runs so far, in order
    faults,         \* faults of the environment so far
    pc,             \* position of the current run in execute_backup
    client,         \* "absent": no SSHClient yet; else SSHClient.client:
                    \* "None", "created" (not connected), "connected"
    sftp,           \* SSHClient.sftp is open
    timestamp,      \* the run's timestamp token
    todo,           \* stack directories still to archive
    nStacks,        \* number of stack directories listed
    log,            \* (phase, success, message) of the phases called so far
    result,         \* what execute_backup returns
    closeCount,     \* calls of SSHClient.close in this run
    usedAfterClose, \* a session operation was called after close
    warnings,       \* logger.warning / logger.error of non-terminal failures
    xferFailed,     \* some remote entry was not transferred
    keepUsed,       \* retention count used by the pruning
    preLocal,       \* local destination tree before the pruning
    delFail,        \* deletions that failed in the pruning
    auth,           \* how connect() authenticates: "unset" before the call,
                    \* then "key", "password" or "none"
    netCalls,       \* calls of paramiko's connect (the network) in this run
    req,            \* the last request to /api/backup: "none", "unknown" (no
                    \* record of that id), "noType", "badType" or "ok"
    response,       \* the answer of trigger_backup to it
    released,       \* what the last close() released, in order
    lastOp,         \* the last operation called on a session by itself (not
                    \* by a run), with the state before it and its outcome
    made,           \* the archives the current run has written
    cmdErrors,      \* the remote commands of the current run that ended with
                    \* a nonzero exit code or a transport fault
    machines,       \* the records of machines.yaml, in the order of the file
    lastCall,       \* the call of a ConfigManager method by the last caller
                    \* or request (none when the request made none), with
                    \* the file before it and its outcome
    lastReq,        \* the last request to a protected endpoint and its answer
    regThreads,     \* the registry mutations in progress, one per handler
    other           \* the variables of a second request, handled by another
                    \* thread of the server, while that thread does not run

hostVars == <<stacksRoot, dockgeDir>>
envVars == <<now, rdirs, rfiles, local, runs, tokens, faults>>
sessVars == <<client, sftp, closeCount, usedAfterClose>>
runVars == <<pc, timestamp, todo, nStacks, log, result, warnings, xferFailed>>
pruneVars == <<keepUsed, preLocal, delFail>>
connVars == <<auth, netCalls>>
apiVars == <<req, response>>
callVars == <<released, lastOp>>
regVars == <<machines, lastCall, lastReq, regThreads>>
vars ==
    <<hostVars, envVars, sessVars, runVars, pruneVars, connVars, apiVars,
      callVars, made, cmdErrors, regVars, other>>

\* ---------------------------------------------------------------- helpers
Msg(text, n) == [text |-> text, n |-> n]
NoMsg == Msg("", 0)
NoResult == [kind |-> "none", ok |-> FALSE, msg |-> NoMsg]
Returned(ok, msg) == [kind |-> "returned", ok |-> ok, msg |-> msg]
\* An exception leaves execute_backup.
Raised == [kind |-> "raised", ok |-> FALSE, msg |-> NoMsg]

Entry(phase, ok, msg) == [phase |-> phase, ok |-> ok, msg |-> msg]

\* An operation called on a session: the transport and the sub-channel before
\* it, what it gave back (an exit code, a boolean as 0/1, nothing, or an
\* exception), and whether the remote host or the local tree changed.
Ret(kind, val) == [kind |-> kind, val |-> val]
Op(name, ret, effect) ==
    [op |-> name, preClient |-> client, preSftp |-> sftp, ret |-> ret,
     effect |-> effect]
NoOp ==
    [op |-> "none", preClient |-> "None", preSftp |-> FALSE,
     ret |-> Ret("none", 0), effect |-> FALSE]

\* ------------------------------------------------ trigger_backup (api.py)
\* The variables one request handler works with: its position, its session,
\* its locals and its answer.  The remote host, the local tree and the clock
\* are shared by all handlers.
Thread ==
    [pc |-> pc, client |-> client, sftp |-> sftp, timestamp |-> timestamp,
     todo |-> todo, nStacks |-> nStacks, log |-> log, result |-> result,
     closeCount |-> closeCount, usedAfterClose |-> usedAfterClose,
     warnings |-> warnings, xferFailed |-> xferFailed, keepUsed |-> keepUsed,
     preLocal |-> preLocal, delFail |-> delFail, auth |-> auth,
     netCalls |-> netCalls, req |-> req, response |-> response,
     released |-> released, made |-> made, cmdErrors |-> cmdErrors]

Response(status, body) == [status |-> status, body |-> body]
NoResponse == Response(0, NoMsg)

\* trigger_backup before execute_backup is called: no record of the id, no
\* backup_type in the record, or a backup_type without a module.
ApiReject(r) ==
    IF r = "unknown" THEN Response(404, Msg("Machine not found", 0))
    ELSE IF r = "noType"
    THEN Response(400, Msg("backup_type not configured for machine", 0))
    ELSE Response(400, Msg("Invalid backup_type", 0))

\* Mutant of ApiResponse: the outcome of the run does not reach the status.
ApiResponseAlways200(res) == Response(200, res.msg)

\* trigger_backup after execute_backup: 200 with the message, 500 with the
\* message of the failure, 500 "Internal server error" for an exception.
ApiResponse(res) ==
    IF res.kind = "raised" THEN Response(500, Msg("Internal server error", 0))
    ELSE IF res.ok THEN Response(200, res.msg)
    ELSE Response(500, res.msg)

\* A handler thread that has no request.
IdleThread ==
    [pc |-> "idle", client |-> "None", sftp |-> FALSE, timestamp |-> 0,
     todo |-> <<>>, nStacks |-> 0, log |-> <<>>, result |-> NoResult,
     closeCount |-> 0, usedAfterClose |-> FALSE,
     warnings |-> {}, xferFailed |-> FALSE, keepUsed |-> 0,
     preLocal |-> {}, delFail |-> {}, auth |-> "unset",
     netCalls |-> 0, req |-> "none", response |-> NoResponse,
     released |-> <<>>, made |-> {}, cmdErrors |-> {}]

\* datetime.now().strftime("%Y_%j_%H%M%S"): the clock cut to whole seconds.
Strftime(t) == t \div TicksPerSec

\* Mutant of RemoteFile: the archive carries a token that is not the run's.
RemoteFileOtherToken(src, tok, size) ==
    [src |-> src, tok |-> tok + 1, size |-> size]

\* An archive <scratch>/<src>/<src>_<tok>.tar.gz
RemoteFile(src, tok, size) == [src |-> src, tok |-> tok, size |-> size]
LocalFile(src, tok, size, mtime) ==
    [src |-> src, tok |-> tok, size |-> size, mtime |-> mtime]
SamePath(f, g) == f.src = g.src /\ f.tok = g.tok

\* ------------------------------------------------- SSHClient (ssh_client.py)
\* connect(), the choice of the credentials: the key when key_path is set and
\* the file exists, else the password when one is set, else none.
AuthMethod(keyPath, keyExists, password) ==
    IF keyPath /\ keyExists THEN "key"
    ELSE IF password THEN "password"
    ELSE "none"

\* Mutant of NetAttempts: the network is tried without credentials too.
NetAttemptsAlways(method) == 1

\* connect(): client.connect is called once, unless there are no credentials.
NetAttempts(method) == IF method = "none" THEN 0 ELSE 1

\* connect(): the paramiko client is created first; without a usable key and
\* without a password it returns False before any network call.
ConnectState(method, net) ==
    IF method # "none" /\ net THEN "connected" ELSE "created"

\* Mutant of Exec: the command is run whatever the state of the session.
ExecUnguarded(exit) == exit

\* exec_command(): -1 without a client, -1 when the transport raises (a client
\* that never connected has none), else the command's exit code.
Exec(exit) ==
    IF client \in {"absent", "None"} THEN -1
    ELSE IF client = "connected" THEN exit
    ELSE -1

\* The command named cmd ended with exit: it is an error unless exit is 0.
CmdError(cmd, exit) == IF exit = 0 THEN {} ELSE {cmd}

\* Every operation of the session notes whether close() came before it.
UseSession == usedAfterClose' = (usedAfterClose \/ closeCount > 0)

\* Mutant of Close: the transport is released and the sub-channel forgotten.
CloseTransportOnly ==
    /\ sftp' = sftp
    /\ client' = "None"
    /\ closeCount' = closeCount + 1
    /\ released' = IF client \in {"created", "connected"}
                    THEN <<"transport">> ELSE <<>>

\* close(): releases the transfer sub-channel, then the transport, each only
\* when it is set.
Close ==
    /\ sftp' = FALSE
    /\ client' = "None"
    /\ closeCount' = closeCount + 1
    /\ released' = (IF sftp THEN <<"sftp">> ELSE <<>>)
                      \o (IF client \in {"created", "connected"}
                          THEN <<"transport">> ELSE <<>>)

\* download_directory() on one per-source subdirectory: False as soon as one
\* entry is not transferred, the entries fetched before stay.
DownloadSubOk(files, fetched) == files \subseteq fetched

\* download_directory() on the scratch directory, which holds the per-source
\* subdirectories: the value of the recursive call is dropped, so only the
\* opening of the sub-channel and the listing of the directory itself count.
DownloadTreeOk(sftpOk, listOk, files, fetched) == sftpOk /\ listOk

\* Mutant of Fetch: the download replaces the local tree by what it fetched.
FetchReplacesTree(L, fetched, t) ==
    {LocalFile(g.src, g.tok, g.size, t) : g \in fetched}

\* The local files after sftp.get of the fetched entries: a file of the same
\* path is overwritten, the modification time is the time of the download.
Fetch(L, fetched, t) ==
    {f \in L : \A g \in fetched : ~SamePath(f, g)}
        \cup {LocalFile(g.src, g.tok, g.size, t) : g \in fetched}

\* Mutant of WriteRemote: the archive is not written.
WriteRemoteNothing(R, g) == R

\* tar -czf writes the archive, replacing one of the same path.
WriteRemote(R, g) == {f \in R : ~SamePath(f, g)} \cup {g}

\* ------------------------------------------------ phases of DockgeBackup
\* Mutants of FailsRun: a failed verification that is only logged, and a
\* failed remote cleanup that is returned.
FailsRunNotVerify == {"connect", "prepare", "stacks", "dockge", "download"}
FailsRunAlsoCleanup ==
    {"connect", "prepare", "stacks", "dockge", "download", "verify", "cleanup"}
\* Mutant of FailsRun: only a failed connect is returned, a run that has a
\* session goes through all the phases.
FailsRunOnlyConnect == {"connect"}

\* The phases whose failure is returned by execute_backup ("if not success:
\* return False, message"); a failed cleanup is only logged.
FailsRun == {"connect", "prepare", "stacks", "dockge", "download", "verify"}

SuccessMessage == Msg("Backup completed successfully", 0)
ExceptionMessage == Msg("Backup failed: exception", 0)

\* Mutant of StacksMessage: no separate answer for an empty listing.
StacksMessageCountOnly(n) == Msg("Backed up stacks", n)

\* _backup_stacks: "No stacks found" for an empty listing, else the count.
StacksMessage(n) ==
    IF n = 0 THEN Msg("No stacks found", 0) ELSE Msg("Backed up stacks", n)

\* Mutant of Return: a return that is not covered by the finally clause.
ReturnWithoutFinally(res) ==
    /\ result' = res
    /\ pc' = "done"

\* A return statement inside the try block: the finally clause runs next.
Return(res) ==
    /\ result' = res
    /\ pc' = "finally"

\* A phase has returned (ok, msg): the run goes on to nextPc, or returns the
\* failure of a phase that fails the run.
PhaseDone(phase, ok, msg, nextPc) ==
    /\ log' = Append(log, Entry(phase, ok, msg))
    /\ IF ~ok /\ phase \in FailsRun
       THEN Return(Returned(FALSE, msg))
       ELSE pc' = nextPc /\ result' = result

\* A phase raised: the except clause of execute_backup returns the failure.
PhaseRaised(phase) ==
    /\ log' = Append(log, Entry(phase, FALSE, ExceptionMessage))
    /\ Return(Returned(FALSE, ExceptionMessage))

Perms(S) ==
    {p \in [1..Cardinality(S) -> S] : \A x \in S : \E i \in DOMAIN p : p[i] = x}

IsHidden(name) == Len(name) > 0 /\ name[1] = "."

\* glob(local_backup_dir/**/*.tar.gz, recursive=True): neither ** nor * match
\* a name that starts with a dot.  An archive lies in <src>/<src>_<tok>.tar.gz.
GlobMatches(f) == ~IsHidden(f.src)

\* _verify_backups
VerifyResult(L) ==
    LET found == {f \in L : GlobMatches(f)} IN
    IF found = {} THEN
        [ok |-> FALSE, msg |-> Msg("No backup files found after download", 0)]
    ELSE IF \E f \in found : f.size < MinSize THEN
        [ok |-> FALSE, msg |-> Msg("Backup file too small", 0)]
    ELSE [ok |-> TRUE, msg |-> Msg("Verified backup files", Cardinality(found))]

\* ------------------------------------------------- _cleanup_old_backups
FilesIn(L, d) == {f \in L : f.src = d}
DirsOf(L) == {f.src : f \in L}

\* list.sort(key=os.path.getmtime, reverse=True): newest first, stable.
InsertDesc(sorted, x) ==
    LET k == Cardinality({i \in DOMAIN sorted : sorted[i].mtime >= x.mtime}) IN
    SubSeq(sorted, 1, k) \o <<x>> \o SubSeq(sorted, k + 1, Len(sorted))

\* Mutant of SortDesc: the listing is left in the order of os.walk.
SortForgotten(s) == s

RECURSIVE SortDesc(_)
SortDesc(s) ==
    IF s = <<>> THEN <<>>
    ELSE InsertDesc(SortDesc(SubSeq(s, 1, Len(s) - 1)), s[Len(s)])

\* full_paths[keep:] of one directory whose archives os.walk listed as listing.
OldBackups(listing, keep) ==
    IF Len(listing) <= keep THEN {}
    ELSE LET sorted == SortDesc(listing) IN
         {sorted[i] : i \in (keep + 1)..Len(sorted)}

\* Mutant of Removed: the first failing os.remove ends the pruning.
RemovedUntilFailure(old, failed) == IF failed = {} THEN old ELSE {}

\* The files actually removed, when os.remove fails for those in failed.
Removed(old, failed) == old \ failed

\* ------------------------------------------- ConfigManager (config.py)
\* A record of machines.yaml: its id and v, which stands for its other fields.
MachineIds == {"m1", "m2"}
MachineVals == {1, 2}
Machine(id, v) == [id |-> id, v |-> v]
\* get_machine returns None.
NoMachine == Machine("none", 0)
\* The machine_data of a call: complete says that the required fields are
\* there.
MachineDatas == [id : MachineIds, v : MachineVals, complete : BOOLEAN]
NoData == [id |-> "none", v |-> 0, complete |-> FALSE]

\* _load_config: the records of the file, or none when reading it raises.
LoadConfig(file, readOk) == IF readOk THEN file ELSE <<>>

HasId(ms, id) == \E i \in DOMAIN ms : ms[i].id = id
FirstIndex(ms, id) ==
    CHOOSE i \in DOMAIN ms :
        /\ ms[i].id = id
        /\ \A j \in DOMAIN ms : ms[j].id = id => i <= j

\* get_machine: the first record with the id, or None.
GetMachine(ms, id) == IF HasId(ms, id) THEN ms[FirstIndex(ms, id)] ELSE NoMachine

\* add_machine up to the defaults: a required field is missing, or
\* get_machine finds the id among the records ms it loaded.
AddCheck(data, ms) ==
    IF ~data.complete THEN "missing"
    ELSE IF GetMachine(ms, data.id) # NoMachine THEN "exists"
    ELSE "ok"

\* add_machine: config['machines'].append(machine_data)
AddedTo(ms, data) == Append(ms, Machine(data.id, data.v))

\* update_machine: the first record with the id is replaced by the new data,
\* with its id set to the one the call was addressed to.
Updated(ms, id, data) ==
    [ms EXCEPT ![FirstIndex(ms, id)] = Machine(id, data.v)]

\* delete_machine: [m for m in machines if m.get('id') != machine_id]
Deleted(ms, id) ==
    LET Keep(m) == m.id # id IN SelectSeq(ms, Keep)

\* What a method does with the records it loaded: what it returns, why,
\* whether it saves the file, and the records it saves.
Outcome(ret, reason, save, reg) ==
    [ret |-> ret, reason |-> reason, save |-> save, reg |-> reg]

\* Mutant of AddMachine: a record of a known id is overwritten, and the call
\* still reports the failure.
AddMachineOverwrites(data, ms1, ms2) ==
    IF AddCheck(data, ms1) = "ok"
    THEN Outcome(TRUE, "ok", TRUE, AddedTo(ms2, data))
    ELSE IF AddCheck(data, ms1) = "exists" /\ HasId(ms2, data.id)
    THEN Outcome(FALSE, "exists", TRUE, Updated(ms2, data.id, data))
    ELSE Outcome(FALSE, AddCheck(data, ms1), FALSE, ms2)

\* add_machine: ms1 is what get_machine loaded for the check, ms2 what the
\* second load gave for the append.
AddMachine(data, ms1, ms2) ==
    IF AddCheck(data, ms1) = "ok"
    THEN Outcome(TRUE, "ok", TRUE, AddedTo(ms2, data))
    ELSE Outcome(FALSE, AddCheck(data, ms1), FALSE, ms2)

\* update_machine: saves and returns True at the first record of the id.
UpdateMachine(ms, id, data) ==
    IF HasId(ms, id)
    THEN Outcome(TRUE, "ok", TRUE, Updated(ms, id, data))
    ELSE Outcome(FALSE, "unknown", FALSE, ms)

\* delete_machine: False when the filtered list is as long as the loaded one.
DeleteMachine(ms, id) ==
    IF Len(Deleted(ms, id)) = Len(ms)
    THEN Outcome(FALSE, "unknown", FALSE, ms)
    ELSE Outcome(TRUE, "ok", TRUE, Deleted(ms, id))

\* A mutation whose loads all see the records ms.
Apply(op, id, data, ms) ==
    IF op = "add" THEN AddMachine(data, ms, ms)
    ELSE IF op = "update" THEN UpdateMachine(ms, id, data)
    ELSE DeleteMachine(ms, id)

\* A call of a method: the records of the file before it, what it returned
\* (for get_machine: whether it found a record), why, the number of loads
\* and whether it saved the file.
Call(op, id, data, ret, reason, reads, wrote) ==
    [op |-> op, id |-> id, data |-> data, ret |-> ret, reason |-> reason,
     pre |-> machines, reads |-> reads, wrote |-> wrote]
NoCall ==
    [op |-> "none", id |-> "none", data |-> NoData, ret |-> FALSE,
     reason |-> "none", pre |-> <<>>, reads |-> 0, wrote |-> FALSE]

\* ------------------------------------- require_bearer_token (api.py)
\* An Authorization header is a string, here the sequence of its pieces:
\* the prefix "Bearer ", the configured API token, and some other text (the
\* token and the other text hold no "Bearer " and make none when joined).
Bearer == "Bearer "
ApiToken == "token"
PiecesOfHeader == {Bearer, ApiToken, "x"}
\* request.headers.get("Authorization") is None.
NoHeader == <<"None">>
Headers ==
    {NoHeader} \cup UNION {[1..n -> PiecesOfHeader] : n \in 0..MaxHeader}

\* auth_header.replace("Bearer ", ""): every occurrence is removed.
Replace(h) ==
    LET NotBearer(piece) == piece # Bearer IN SelectSeq(h, NotBearer)

\* The decorator: 401 for a missing (or empty) header, for one that does not
\* start with "Bearer ", and for one whose rest is not the token; else the
\* handler is called.
RequireBearerToken(h) ==
    IF h = NoHeader \/ h = <<>> THEN "missing"
    ELSE IF h[1] # Bearer THEN "format"
    ELSE IF Replace(h) # <<ApiToken>> THEN "invalid"
    ELSE "ok"

\* A request: the endpoint, its header, whether the handler was called, the
\* status of the answer, the loads of the registry, whether the registry
\* was saved and whether a backup run was started.
Request(ep, header, handled, status, reads, wrote, started) ==
    [ep |-> ep, header |-> header, handled |-> handled, status |-> status,
     reads |-> reads, wrote |-> wrote, started |-> started]
NoRequest == Request("none", NoHeader, FALSE, 0, 0, FALSE, FALSE)

\* A handler that has no registry mutation in progress.
Handlers == {1, 2}
IdleMutation ==
    [op |-> "none", id |-> "none", data |-> NoData, step |-> "idle",
     snap |-> <<>>, ret |-> FALSE]

\* _ensure_config_exists has written an empty machines.yaml.
InitRegistry ==
    /\ machines = <<>>
    /\ lastCall = NoCall
    /\ lastReq = NoRequest
    /\ regThreads = [t \in Handlers |-> IdleMutation]

\* Nothing has run yet: the scratch directory and the local tree are empty,
\* the handler has no request.
InitRun ==
    /\ now = 0
    /\ rdirs = {}
    /\ rfiles = {}
    /\ local = {}
    /\ runs = 0
    /\ tokens = <<>>
    /\ pc = "idle"
    /\ client = "None"
    /\ sftp = FALSE
    /\ timestamp = 0
    /\ todo = <<>>
    /\ nStacks = 0
    /\ log = <<>>
    /\ result = NoResult
    /\ closeCount = 0
    /\ usedAfterClose = FALSE
    /\ warnings = {}
    /\ xferFailed = FALSE
    /\ keepUsed = 0
    /\ preLocal = {}
    /\ delFail = {}
    /\ auth = "unset"
    /\ netCalls = 0
    /\ req = "none"
    /\ response = NoResponse
    /\ released = <<>>
    /\ lastOp = NoOp
    /\ made = {}
    /\ cmdErrors = {}
    /\ other = IdleThread

Init ==
    /\ stacksRoot \in SUBSET StackNames
    /\ dockgeDir \in BOOLEAN
    /\ faults = 0
    /\ InitRun
    /\ InitRegistry

\* The wall clock advances.  The code reads it in two places, datetime.now()
\* for the token and the modification time a download gives a file, so it is
\* enough to let time pass right before these.
Tick ==
    /\ UNCHANGED other
    /\ UNCHANGED regVars
    /\ UNCHANGED cmdErrors
    /\ UNCHANGED made
    /\ UNCHANGED hostVars
    /\ UNCHANGED callVars
    /\ UNCHANGED apiVars
    /\ UNCHANGED connVars
    /\ now < MaxClock
    /\ pc \in {"connect", "download"}
    /\ now' = now + 1
    /\ UNCHANGED <<rdirs, rfiles, local, runs, tokens, faults>>
    /\ UNCHANGED <<sessVars, runVars, pruneVars>>

\* The environment fails k more times, within the budget.
Fault(k) ==
    /\ faults + k <= MaxFaults
    /\ faults' = faults + k
Cost(exit) == IF exit = 0 THEN 0 ELSE 1
B(failed) == IF failed THEN 1 ELSE 0

\* trigger_backup answers without calling execute_backup: the registry has no
\* record of the machine, or the record names no usable backup type.
Reject ==
    /\ UNCHANGED other
    /\ UNCHANGED regVars
    /\ pc \in {"idle", "done"}
    /\ \E r \in {"unknown", "noType", "badType"} :
          /\ req' = r
          /\ response' = ApiReject(r)
    /\ pc' = "idle"
    /\ client' = "None"
    /\ result' = NoResult
    /\ sftp' = FALSE
    /\ closeCount' = 0
    /\ usedAfterClose' = FALSE
    /\ timestamp' = 0
    /\ todo' = <<>>
    /\ nStacks' = 0
    /\ log' = <<>>
    /\ warnings' = {}
    /\ xferFailed' = FALSE
    /\ keepUsed' = 0
    /\ preLocal' = {}
    /\ delFail' = {}
    /\ auth' = "unset"
    /\ netCalls' = 0
    /\ released' = <<>>
    /\ made' = {}
    /\ cmdErrors' = {}
    /\ UNCHANGED lastOp
    /\ UNCHANGED hostVars
    /\ UNCHANGED envVars

\* trigger_backup for a known machine of type dockge calls execute_backup;
\* execute_backup up to the try block: machine_config["id"], ["host"] and
\* ["ssh_user"] are read outside it, a missing key raises KeyError to the
\* caller, which answers 500.
StartRun ==
    /\ UNCHANGED other
    /\ UNCHANGED regVars
    /\ UNCHANGED hostVars
    /\ pc \in {"idle", "done"}
    /\ runs < MaxRuns
    /\ runs' = runs + 1
    /\ req' = "ok"
    /\ \E missing \in {"none", "id", "host", "ssh_user"} :
          IF missing = "none"
          THEN /\ client' = "None"
               /\ pc' = "connect"
               /\ result' = NoResult
               /\ response' = NoResponse
          ELSE /\ client' = "absent"
               /\ pc' = "done"
               /\ result' = Raised
               /\ response' = ApiResponse(Raised)
    /\ sftp' = FALSE
    /\ closeCount' = 0
    /\ usedAfterClose' = FALSE
    /\ timestamp' = 0
    /\ todo' = <<>>
    /\ nStacks' = 0
    /\ log' = <<>>
    /\ warnings' = {}
    /\ xferFailed' = FALSE
    /\ keepUsed' = 0
    /\ preLocal' = {}
    /\ delFail' = {}
    /\ auth' = "unset"
    /\ netCalls' = 0
    /\ released' = <<>>
    /\ made' = {}
    /\ cmdErrors' = {}
    /\ UNCHANGED lastOp
    /\ UNCHANGED <<now, rdirs, rfiles, local, tokens, faults>>

\* ssh_client.connect(), then the timestamp token of the run.
Connect ==
    /\ UNCHANGED other
    /\ UNCHANGED regVars
    /\ UNCHANGED cmdErrors
    /\ UNCHANGED made
    /\ UNCHANGED hostVars
    /\ UNCHANGED callVars
    /\ UNCHANGED apiVars
    /\ pc = "connect"
    /\ \E keyPath \in BOOLEAN, keyExists \in BOOLEAN, password \in BOOLEAN,
          net \in BOOLEAN :
          /\ ~keyPath => ~keyExists
          /\ auth' = AuthMethod(keyPath, keyExists, password)
          /\ netCalls' = netCalls + NetAttempts(auth')
          /\ NetAttempts(auth') = 0 => net
          /\ Fault(B(~net))
          /\ client' = ConnectState(auth', net)
          /\ IF client' = "connected"
             THEN /\ timestamp' = Strftime(now)
                  /\ tokens' = Append(tokens, timestamp')
                  /\ PhaseDone("connect", TRUE, NoMsg, "prepare")
             ELSE /\ PhaseDone("connect", FALSE,
                               Msg("Failed to connect to host", 0), "prepare")
                  /\ UNCHANGED <<timestamp, tokens>>
    /\ UseSession
    /\ UNCHANGED <<now, rdirs, rfiles, local, runs>>
    /\ UNCHANGED <<sftp, closeCount, todo, nStacks, warnings, xferFailed>>
    /\ UNCHANGED pruneVars

\* _create_remote_backup_dir: mkdir -p of the scratch directory.
Prepare ==
    /\ UNCHANGED other
    /\ UNCHANGED regVars
    /\ UNCHANGED made
    /\ UNCHANGED hostVars
    /\ UNCHANGED callVars
    /\ UNCHANGED apiVars
    /\ UNCHANGED connVars
    /\ pc = "prepare"
    /\ \E e \in ExitCodes :
          /\ Fault(Cost(e))
          /\ cmdErrors' = cmdErrors \cup CmdError("mkdir scratch", Exec(e))
          /\ IF Exec(e) = 0
             THEN PhaseDone("prepare", TRUE, Msg("Backup directory created", 0), "list")
             ELSE PhaseDone("prepare", FALSE,
                            Msg("Failed to create backup directory", 0), "list")
    /\ UseSession
    /\ UNCHANGED <<now, rdirs, rfiles, local, runs, tokens>>
    /\ UNCHANGED <<client, sftp, closeCount>>
    /\ UNCHANGED <<timestamp, todo, nStacks, warnings, xferFailed>>
    /\ UNCHANGED pruneVars

\* _backup_stacks, the listing: find lists the stack directories of the
\* remote host, in some order.
ListStacks ==
    /\ UNCHANGED other
    /\ UNCHANGED regVars
    /\ UNCHANGED made
    /\ UNCHANGED hostVars
    /\ UNCHANGED callVars
    /\ UNCHANGED apiVars
    /\ UNCHANGED connVars
    /\ pc = "list"
    /\ \E e \in ExitCodes :
          LET stacks == stacksRoot IN
          /\ Fault(Cost(e))
          /\ cmdErrors' = cmdErrors \cup CmdError("find", Exec(e))
          /\ IF Exec(e) # 0
             THEN /\ PhaseDone("stacks", FALSE, Msg("Failed to list stacks", 0), "dockge")
                  /\ UNCHANGED <<todo, nStacks>>
             ELSE IF stacks = {}
             THEN /\ PhaseDone("stacks", TRUE, StacksMessage(0), "dockge")
                  /\ UNCHANGED <<todo, nStacks>>
             ELSE \E order \in Perms(stacks) :
                    /\ todo' = order
                    /\ nStacks' = Len(order)
                    /\ pc' = "stack"
                    /\ UNCHANGED <<log, result>>
    /\ UseSession
    /\ UNCHANGED <<now, rdirs, rfiles, local, runs, tokens>>
    /\ UNCHANGED <<client, sftp, closeCount>>
    /\ UNCHANGED <<timestamp, warnings, xferFailed>>
    /\ UNCHANGED pruneVars

\* One source is archived: mkdir -p of its subdirectory (the exit code is not
\* looked at), then tar, which cannot write into a missing directory.
\* ok: tar ended with 0; dirs, files: the scratch directory afterwards; wrote:
\* the archive written; errs: the commands that ended with an error; cost:
\* the faults of the environment (a tar that fails for want of the directory
\* is none, an archive of implausible size is one).
ArchiveOutcomes(src) ==
    LET Dirs(m) == IF Exec(m) = 0 THEN rdirs \cup {src} ELSE rdirs
        all == {[ok |-> Exec(t) = 0,
                 dirs |-> Dirs(m),
                 files |-> IF Exec(t) = 0
                           THEN WriteRemote(rfiles, RemoteFile(src, timestamp, size))
                           ELSE rfiles,
                 wrote |-> IF Exec(t) = 0
                           THEN {RemoteFile(src, timestamp, size)}
                           ELSE {},
                 errs |-> CmdError("mkdir", Exec(m)) \cup CmdError("tar", Exec(t)),
                 cost |-> Cost(m) + (IF src \in Dirs(m) THEN Cost(t) ELSE 0)
                            + B(Exec(t) = 0 /\ size < MinSize)] :
                   m \in ExitCodes, t \in ExitCodes, size \in Sizes}
    IN {o \in all : o.ok => src \in o.dirs}

\* _backup_stacks, one turn of the loop over the stack directories.
ArchiveStack ==
    /\ UNCHANGED other
    /\ UNCHANGED regVars
    /\ UNCHANGED hostVars
    /\ UNCHANGED callVars
    /\ UNCHANGED apiVars
    /\ UNCHANGED connVars
    /\ pc = "stack"
    /\ todo # <<>>
    /\ \E o \in ArchiveOutcomes(Head(todo)) :
          /\ Fault(o.cost)
          /\ rdirs' = o.dirs
          /\ rfiles' = o.files
          /\ made' = made \cup o.wrote
          /\ cmdErrors' = cmdErrors \cup o.errs
          /\ IF ~o.ok
             THEN /\ PhaseDone("stacks", FALSE, Msg("Failed to backup stack", 0), "dockge")
                  /\ todo' = todo
             ELSE /\ todo' = Tail(todo)
                  /\ IF Tail(todo) = <<>>
                     THEN PhaseDone("stacks", TRUE, StacksMessage(nStacks), "dockge")
                     ELSE UNCHANGED <<pc, log, result>>
    /\ UseSession
    /\ UNCHANGED <<now, local, runs, tokens>>
    /\ UNCHANGED <<client, sftp, closeCount>>
    /\ UNCHANGED <<timestamp, nStacks, warnings, xferFailed>>
    /\ UNCHANGED pruneVars

\* _backup_dockge: skipped when the check does not print "exists".
BackupDockge ==
    /\ UNCHANGED other
    /\ UNCHANGED regVars
    /\ UNCHANGED hostVars
    /\ UNCHANGED callVars
    /\ UNCHANGED apiVars
    /\ UNCHANGED connVars
    /\ pc = "dockge"
    /\ \E c \in ExitCodes :
          IF Exec(c) # 0 \/ ~dockgeDir
          THEN /\ Fault(Cost(c))
               /\ cmdErrors' = cmdErrors \cup CmdError("check", Exec(c))
               /\ PhaseDone("dockge", TRUE,
                            Msg("Dockge directory not found (skipped)", 0), "download")
               /\ UNCHANGED <<rdirs, rfiles, made>>
          ELSE \E o \in ArchiveOutcomes(DockgeName) :
                 /\ Fault(o.cost)
                 /\ rdirs' = o.dirs
                 /\ rfiles' = o.files
                 /\ made' = made \cup o.wrote
                 /\ cmdErrors' = cmdErrors \cup o.errs
                 /\ IF o.ok
                    THEN PhaseDone("dockge", TRUE,
                                   Msg("Backed up Dockge directory", 0), "download")
                    ELSE PhaseDone("dockge", FALSE,
                                   Msg("Failed to backup Dockge directory", 0), "download")
    /\ UseSession
    /\ UNCHANGED <<now, local, runs, tokens>>
    /\ UNCHANGED <<client, sftp, closeCount>>
    /\ UNCHANGED <<timestamp, todo, nStacks, warnings, xferFailed>>
    /\ UNCHANGED pruneVars

\* The subdirectories of the scratch directory with an entry that is not
\* among the fetched ones.
FailedSubdirs(fetched) ==
    {d \in rdirs : ~DownloadSubOk(FilesIn(rfiles, d), fetched)}

\* Mutant of DownloadResult: a failed chmod fails the phase.
DownloadResultChmodFatal(treeOk, chmodOk) == treeOk /\ chmodOk

\* _download_backups: the result of download_directory; the chmod that follows
\* a successful download is inside its own try block and only logs a warning.
DownloadResult(treeOk, chmodOk) == treeOk

\* The download phase: local_backup_dir is read first; _download_backups
\* creates it (os.makedirs raises when it cannot), mirrors the scratch
\* directory and, after a successful download, sets the permissions.
Download ==
    /\ UNCHANGED other
    /\ UNCHANGED regVars
    /\ UNCHANGED cmdErrors
    /\ UNCHANGED made
    /\ UNCHANGED hostVars
    /\ UNCHANGED callVars
    /\ UNCHANGED apiVars
    /\ UNCHANGED connVars
    /\ pc = "download"
    /\ \E hasLocalDir \in BOOLEAN, mkOk \in BOOLEAN :
          IF ~hasLocalDir
          THEN /\ mkOk
               /\ Return(Returned(FALSE,
                      Msg("local_backup_dir not configured for machine", 0)))
               /\ UNCHANGED <<log, local, sftp, warnings, xferFailed>>
               /\ UNCHANGED <<usedAfterClose, faults>>
          ELSE IF ~mkOk
          THEN /\ Fault(1)
               /\ PhaseRaised("download")
               /\ UNCHANGED <<local, sftp, warnings, xferFailed, usedAfterClose>>
          ELSE \E sftpOk \in BOOLEAN, listOk \in BOOLEAN, chmodOk \in BOOLEAN,
                  fetched \in SUBSET rfiles :
                 /\ ~sftpOk => listOk
                 /\ ~(sftpOk /\ listOk) => (chmodOk /\ fetched = {})
                 /\ Fault(IF sftpOk /\ listOk
                          THEN Cardinality(FailedSubdirs(fetched)) + B(~chmodOk)
                          ELSE 1)
                 /\ UseSession
                 /\ sftp' = sftpOk
                 /\ local' = Fetch(local, fetched, now)
                 /\ xferFailed' = (FailedSubdirs(fetched) # {})
                 /\ warnings' = IF chmodOk THEN warnings ELSE warnings \cup {"chmod"}
                 /\ IF DownloadResult(
                           DownloadTreeOk(sftpOk, listOk, rfiles, fetched), chmodOk)
                    THEN PhaseDone("download", TRUE,
                                Msg("Backups downloaded successfully", 0), "verify")
                    ELSE PhaseDone("download", FALSE,
                                Msg("Failed to download backups", 0), "verify")
    /\ UNCHANGED <<now, rdirs, rfiles, runs, tokens>>
    /\ UNCHANGED <<client, closeCount>>
    /\ UNCHANGED <<timestamp, todo, nStacks>>
    /\ UNCHANGED pruneVars

\* _verify_backups
Verify ==
    /\ UNCHANGED other
    /\ UNCHANGED regVars
    /\ UNCHANGED cmdErrors
    /\ UNCHANGED made
    /\ UNCHANGED hostVars
    /\ UNCHANGED callVars
    /\ UNCHANGED apiVars
    /\ UNCHANGED connVars
    /\ pc = "verify"
    /\ LET v == VerifyResult(local) IN PhaseDone("verify", v.ok, v.msg, "cleanup")
    /\ UNCHANGED envVars
    /\ UNCHANGED sessVars
    /\ UNCHANGED <<timestamp, todo, nStacks, warnings, xferFailed>>
    /\ UNCHANGED pruneVars

\* _cleanup_remote: rm -rf of the scratch directory; a failure is a warning.
CleanupRemote ==
    /\ UNCHANGED other
    /\ UNCHANGED regVars
    /\ UNCHANGED cmdErrors
    /\ UNCHANGED made
    /\ UNCHANGED hostVars
    /\ UNCHANGED callVars
    /\ UNCHANGED apiVars
    /\ UNCHANGED connVars
    /\ pc = "cleanup"
    /\ \E e \in ExitCodes :
          /\ Fault(Cost(e))
          /\ IF Exec(e) = 0
             THEN /\ rdirs' = {}
                  /\ rfiles' = {}
                  /\ warnings' = warnings
                  /\ PhaseDone("cleanup", TRUE,
                               Msg("Remote cleanup successful", 0), "prune")
             ELSE /\ UNCHANGED <<rdirs, rfiles>>
                  /\ warnings' = warnings \cup {"cleanup"}
                  /\ PhaseDone("cleanup", FALSE,
                               Msg("Failed to cleanup remote backup directory", 0),
                               "prune")
    /\ UseSession
    /\ UNCHANGED <<now, local, runs, tokens>>
    /\ UNCHANGED <<client, sftp, closeCount>>
    /\ UNCHANGED <<timestamp, todo, nStacks, xferFailed>>
    /\ UNCHANGED pruneVars

\* _cleanup_old_backups over every directory of the local tree, then the
\* return of the success.  os.walk lists the archives of a directory in some
\* order; os.remove may fail for any of the old backups.
CleanupOldBackups ==
    /\ UNCHANGED other
    /\ UNCHANGED regVars
    /\ UNCHANGED cmdErrors
    /\ UNCHANGED made
    /\ UNCHANGED hostVars
    /\ UNCHANGED callVars
    /\ UNCHANGED apiVars
    /\ UNCHANGED connVars
    /\ pc = "prune"
    /\ \E keep \in (0..MaxKeep) \cup {DefaultRetention}, old \in SUBSET local :
          /\ \A d \in DirsOf(local) :
                \E listing \in Perms(FilesIn(local, d)) :
                    FilesIn(old, d) = OldBackups(listing, keep)
          /\ \E failed \in SUBSET old :
                /\ Fault(Cardinality(failed))
                /\ keepUsed' = keep
                /\ preLocal' = local
                /\ delFail' = failed
                /\ local' = local \ Removed(old, failed)
                /\ warnings' = IF failed = {} THEN warnings
                               ELSE warnings \cup {"prune"}
    /\ log' = Append(log, Entry("prune", TRUE, NoMsg))
    /\ Return(Returned(TRUE, SuccessMessage))
    /\ UNCHANGED <<now, rdirs, rfiles, runs, tokens>>
    /\ UNCHANGED sessVars
    /\ UNCHANGED <<timestamp, todo, nStacks, xferFailed>>

\* The finally clause: ssh_client.close(), then execute_backup returns and
\* trigger_backup answers the request.
Finally ==
    /\ UNCHANGED other
    /\ UNCHANGED regVars
    /\ UNCHANGED cmdErrors
    /\ UNCHANGED made
    /\ UNCHANGED hostVars
    /\ UNCHANGED lastOp
    /\ UNCHANGED connVars
    /\ req' = req
    /\ response' = ApiResponse(result)
    /\ pc = "finally"
    /\ Close
    /\ pc' = "done"
    /\ UNCHANGED envVars
    /\ UNCHANGED usedAfterClose
    /\ UNCHANGED <<timestamp, todo, nStacks, log, result, warnings, xferFailed>>
    /\ UNCHANGED pruneVars

Next ==
    \/ Tick
    \/ Reject
    \/ StartRun
    \/ Connect
    \/ Prepare
    \/ ListStacks
    \/ ArchiveStack
    \/ BackupDockge
    \/ Download
    \/ Verify
    \/ CleanupRemote
    \/ CleanupOldBackups
    \/ Finally

Spec == Init /\ [][Next]_vars

\* ------------------------------------------- a Remote Session by itself
\* The operations of one SSHClient, called in any order by some caller (not
\* by execute_backup): the states before connect, after a failed connect and
\* after close are reached with every operation.  The variables of the runs
\* stay as they are.
runIdle ==
    UNCHANGED <<hostVars, runVars, pruneVars, apiVars, now, runs, tokens,
                made, cmdErrors, regVars, other>>

\* "if not self.sftp: self.sftp = self.client.open_sftp()": a sub-channel is
\* at hand when one is open, or when the transport is connected and opens one;
\* without a connected transport open_sftp raises.
OpenSftp(opens) == sftp \/ (client = "connected" /\ opens)

\* connect(): every call makes a new paramiko client; an open sub-channel of
\* an earlier connection stays in self.sftp.
ConnectCall ==
    /\ netCalls < MaxConnects
    /\ \E keyPath \in BOOLEAN, keyExists \in BOOLEAN, password \in BOOLEAN,
          net \in BOOLEAN :
          /\ ~keyPath => ~keyExists
          /\ auth' = AuthMethod(keyPath, keyExists, password)
          /\ netCalls' = netCalls + NetAttempts(auth')
          /\ NetAttempts(auth') = 0 => net
          /\ Fault(B(~net))
          /\ client' = ConnectState(auth', net)
          /\ lastOp' = Op("connect",
                          Ret("bool", B(client' = "connected")), FALSE)
    /\ UseSession
    /\ UNCHANGED <<sftp, closeCount, released, rdirs, rfiles, local>>
    /\ runIdle

\* exec_command() of a command that writes an archive into the scratch
\* directory when it ends with 0.
ExecCommand ==
    /\ \E e \in ExitCodes :
          /\ Fault(IF client = "connected" THEN Cost(e) ELSE 0)
          /\ IF Exec(e) = 0
             THEN /\ rdirs' = rdirs \cup {DockgeName}
                  /\ rfiles' = WriteRemote(rfiles,
                                    RemoteFile(DockgeName, Strftime(now), MinSize))
             ELSE UNCHANGED <<rdirs, rfiles>>
          /\ lastOp' = Op("exec", Ret("exit", Exec(e)),
                          rdirs' # rdirs \/ rfiles' # rfiles)
    /\ UseSession
    /\ UNCHANGED <<client, sftp, closeCount, released, local>>
    /\ UNCHANGED connVars
    /\ runIdle

\* download_directory() of the scratch directory: without a sub-channel and
\* without a transport that opens one, open_sftp raises and False is returned.
DownloadDirectory ==
    /\ \E opens \in BOOLEAN, listOk \in BOOLEAN, fetched \in SUBSET rfiles :
          LET sftpOk == OpenSftp(opens) IN
          /\ ~sftpOk => listOk
          /\ ~(sftpOk /\ listOk) => fetched = {}
          /\ Fault(IF ~OpenSftp(TRUE) THEN 0
                   ELSE IF sftpOk /\ listOk
                   THEN Cardinality(FailedSubdirs(fetched))
                   ELSE 1)
          /\ sftp' = sftpOk
          /\ local' = Fetch(local, fetched, now)
          /\ lastOp' = Op("download",
                          Ret("bool", B(DownloadTreeOk(sftpOk, listOk, rfiles, fetched))),
                          local' # local)
    /\ UseSession
    /\ UNCHANGED <<client, closeCount, released, rdirs, rfiles>>
    /\ UNCHANGED connVars
    /\ runIdle

\* delete_remote_directory() of the scratch directory: rm -rf by exec_command.
DeleteRemoteDirectory ==
    /\ \E e \in ExitCodes :
          /\ Fault(IF client = "connected" THEN Cost(e) ELSE 0)
          /\ IF Exec(e) = 0
             THEN rdirs' = {} /\ rfiles' = {}
             ELSE UNCHANGED <<rdirs, rfiles>>
          /\ lastOp' = Op("delete", Ret("bool", B(Exec(e) = 0)),
                          rdirs' # rdirs \/ rfiles' # rfiles)
    /\ UseSession
    /\ UNCHANGED <<client, sftp, closeCount, released, local>>
    /\ UNCHANGED connVars
    /\ runIdle

\* close(): self.sftp.close() is not inside a try block; when the library
\* raises (the connection is lost while the sub-channel is being closed) the
\* exception leaves close() and neither field is cleared.
CloseCall ==
    /\ closeCount < MaxCloses
    /\ \E raises \in BOOLEAN :
          IF raises
          THEN /\ sftp /\ client = "connected"
               /\ Fault(1)
               /\ closeCount' = closeCount + 1
               /\ released' = <<>>
               /\ lastOp' = Op("close", Ret("raised", 0), FALSE)
               /\ UNCHANGED <<client, sftp>>
          ELSE /\ Close
               /\ lastOp' = Op("close", Ret("none", 0), FALSE)
               /\ UNCHANGED faults
    /\ UNCHANGED <<usedAfterClose, rdirs, rfiles, local>>
    /\ UNCHANGED connVars
    /\ runIdle

SessionNext ==
    \/ ConnectCall
    \/ ExecCommand
    \/ DownloadDirectory
    \/ DeleteRemoteDirectory
    \/ CloseCall

SessionSpec == Init /\ [][SessionNext]_vars

\* --------------------------------------------- two requests at a time
\* The server handles every request in a thread of its own and trigger_backup
\* takes no lock: the steps of two handlers interleave in any order.  The
\* scheduler lets the other handler run: the variables of the two handlers
\* change places, the remote host, the local tree and the clock are shared.
Switch ==
    /\ other' = Thread
    /\ pc' = other.pc
    /\ client' = other.client
    /\ sftp' = other.sftp
    /\ timestamp' = other.timestamp
    /\ todo' = other.todo
    /\ nStacks' = other.nStacks
    /\ log' = other.log
    /\ result' = other.result
    /\ closeCount' = other.closeCount
    /\ usedAfterClose' = other.usedAfterClose
    /\ warnings' = other.warnings
    /\ xferFailed' = other.xferFailed
    /\ keepUsed' = other.keepUsed
    /\ preLocal' = other.preLocal
    /\ delFail' = other.delFail
    /\ auth' = other.auth
    /\ netCalls' = other.netCalls
    /\ req' = other.req
    /\ response' = other.response
    /\ released' = other.released
    /\ made' = other.made
    /\ cmdErrors' = other.cmdErrors
    /\ UNCHANGED <<hostVars, envVars, lastOp, regVars>>

ConcNext ==
    \/ Tick
    \/ Reject
    \/ StartRun
    \/ Connect
    \/ Prepare
    \/ ListStacks
    \/ ArchiveStack
    \/ BackupDockge
    \/ Download
    \/ Verify
    \/ CleanupRemote
    \/ CleanupOldBackups
    \/ Finally
    \/ Switch

\* A host with one stack and no secondary directory, and an environment that
\* does not fail: what goes wrong here is the work of the other handler.
ConcInit ==
    /\ stacksRoot = {AppName}
    /\ dockgeDir = FALSE
    /\ faults = MaxFaults
    /\ InitRun
    /\ InitRegistry

ConcSpec == ConcInit /\ [][ConcNext]_vars

\* --------------------------------- the registry, one call at a time
\* The runs and the sessions stay as they are.
regIdle ==
    UNCHANGED <<hostVars, now, rdirs, rfiles, local, runs, tokens, sessVars,
                runVars, pruneVars, connVars, apiVars, callVars, made,
                cmdErrors, other>>

\* add_machine(data): the required fields, then get_machine (a load), then
\* the defaults, a second load, the append and the save.
ConfigAdd(data) ==
    \E r1 \in BOOLEAN, r2 \in BOOLEAN :
        LET ms1 == LoadConfig(machines, r1)
            ms2 == LoadConfig(machines, r2)
            o == AddMachine(data, ms1, ms2)
        IN /\ o.reason = "missing" => (r1 /\ r2)
           /\ o.reason = "exists" => r2
           /\ Fault(B(~r1) + B(~r2))
           /\ machines' = IF o.save THEN o.reg ELSE machines
           /\ Len(machines') <= MaxMachines
           /\ lastCall' = Call("add", data.id, data, o.ret, o.reason,
                               IF o.reason = "missing" THEN 0
                               ELSE IF o.reason = "exists" THEN 1 ELSE 2,
                               o.save)

\* update_machine(id, data): one load; the save only when the id is found.
ConfigUpdate(id, data) ==
    \E r \in BOOLEAN :
        LET o == UpdateMachine(LoadConfig(machines, r), id, data) IN
        /\ Fault(B(~r))
        /\ machines' = IF o.save THEN o.reg ELSE machines
        /\ lastCall' = Call("update", id, data, o.ret, o.reason, 1, o.save)

\* delete_machine(id): one load; the save only when a record was dropped.
ConfigDelete(id) ==
    \E r \in BOOLEAN :
        LET o == DeleteMachine(LoadConfig(machines, r), id) IN
        /\ Fault(B(~r))
        /\ machines' = IF o.save THEN o.reg ELSE machines
        /\ lastCall' = Call("delete", id, NoData, o.ret, o.reason, 1, o.save)

\* get_machine(id) and get_all_machines(): one load, nothing is saved.
ConfigGet(id) ==
    \E r \in BOOLEAN :
        LET ms == LoadConfig(machines, r) IN
        /\ Fault(B(~r))
        /\ machines' = machines
        /\ lastCall' = Call("get", id, NoData, GetMachine(ms, id) # NoMachine,
                            IF HasId(ms, id) THEN "ok" ELSE "unknown", 1, FALSE)

AddMachineCall ==
    /\ \E data \in MachineDatas : ConfigAdd(data)
    /\ UNCHANGED <<lastReq, regThreads>>
    /\ regIdle

UpdateMachineCall ==
    /\ \E id \in MachineIds, data \in MachineDatas : ConfigUpdate(id, data)
    /\ UNCHANGED <<lastReq, regThreads>>
    /\ regIdle

DeleteMachineCall ==
    /\ \E id \in MachineIds : ConfigDelete(id)
    /\ UNCHANGED <<lastReq, regThreads>>
    /\ regIdle

GetMachineCall ==
    /\ \E id \in MachineIds : ConfigGet(id)
    /\ UNCHANGED <<lastReq, regThreads>>
    /\ regIdle

RegistryNext ==
    \/ AddMachineCall
    \/ UpdateMachineCall
    \/ DeleteMachineCall
    \/ GetMachineCall

RegistrySpec == Init /\ [][RegistryNext]_vars

\* ------------------------------------------ the protected endpoints
\* get_all_machines(): one load.
ConfigGetAll ==
    \E r \in BOOLEAN :
        /\ Fault(B(~r))
        /\ machines' = machines
        /\ lastCall' = Call("list", "none", NoData, TRUE, "ok", 1, FALSE)

\* The decorator has answered 401: the handler is not called.
Unauthorized(ep, h) ==
    /\ lastReq' = Request(ep, h, FALSE, 401, 0, FALSE, FALSE)
    /\ lastCall' = NoCall
    /\ UNCHANGED <<machines, faults>>

\* The handler has run and answers with status; it has used the registry as
\* the call of the ConfigManager in this step says.
Handled(ep, h, status, started) ==
    lastReq' = Request(ep, h, TRUE, status, lastCall'.reads, lastCall'.wrote,
                       started)

\* POST /api/backup with a machine_id: 404 for an id without a record, 400
\* for a record without a usable backup_type, else execute_backup is called
\* and the run decides between 200 and 500.
ApiTriggerBackup ==
    /\ \E h \in Headers :
          IF RequireBearerToken(h) # "ok" THEN Unauthorized("backup", h)
          ELSE \E id \in MachineIds, r \in {"noType", "badType", "ok"},
                  res \in {Returned(TRUE, SuccessMessage),
                           Returned(FALSE, ExceptionMessage)} :
                 /\ ConfigGet(id)
                 /\ r # "ok" => res.ok
                 /\ Handled("backup", h,
                            IF ~lastCall'.ret THEN ApiReject("unknown").status
                            ELSE IF r # "ok" THEN ApiReject(r).status
                            ELSE ApiResponse(res).status,
                            lastCall'.ret /\ r = "ok")
    /\ UNCHANGED regThreads
    /\ regIdle

\* GET /api/machines
ApiGetMachines ==
    /\ \E h \in Headers :
          IF RequireBearerToken(h) # "ok" THEN Unauthorized("list", h)
          ELSE /\ ConfigGetAll
               /\ Handled("list", h, 200, FALSE)
    /\ UNCHANGED regThreads
    /\ regIdle

\* GET /api/machines/<machine_id>
ApiGetMachine ==
    /\ \E h \in Headers :
          IF RequireBearerToken(h) # "ok" THEN Unauthorized("get", h)
          ELSE \E id \in MachineIds :
                 /\ ConfigGet(id)
                 /\ Handled("get", h, IF lastCall'.ret THEN 200 ELSE 404, FALSE)
    /\ UNCHANGED regThreads
    /\ regIdle

\* POST /api/machines: 400 without calling the ConfigManager when a required
\* field is missing, else 201 or 400 as add_machine returns.
ApiAddMachine ==
    /\ \E h \in Headers :
          IF RequireBearerToken(h) # "ok" THEN Unauthorized("add", h)
          ELSE \E data \in MachineDatas :
                 IF ~data.complete
                 THEN /\ lastReq' = Request("add", h, TRUE, 400, 0, FALSE, FALSE)
                      /\ lastCall' = NoCall
                      /\ UNCHANGED <<machines, faults>>
                 ELSE /\ ConfigAdd(data)
                      /\ Handled("add", h, IF lastCall'.ret THEN 201 ELSE 400,
                                 FALSE)
    /\ UNCHANGED regThreads
    /\ regIdle

\* PUT /api/machines/<machine_id>
ApiUpdateMachine ==
    /\ \E h \in Headers :
          IF RequireBearerToken(h) # "ok" THEN Unauthorized("update", h)
          ELSE \E id \in MachineIds, data \in MachineDatas :
                 /\ ConfigUpdate(id, data)
                 /\ Handled("update", h, IF lastCall'.ret THEN 200 ELSE 404,
                            FALSE)
    /\ UNCHANGED regThreads
    /\ regIdle

\* DELETE /api/machines/<machine_id>
ApiDeleteMachine ==
    /\ \E h \in Headers :
          IF RequireBearerToken(h) # "ok" THEN Unauthorized("delete", h)
          ELSE \E id \in MachineIds :
                 /\ ConfigDelete(id)
                 /\ Handled("delete", h, IF lastCall'.ret THEN 200 ELSE 404,
                            FALSE)
    /\ UNCHANGED regThreads
    /\ regIdle

ApiNext ==
    \/ ApiTriggerBackup
    \/ ApiGetMachines
    \/ ApiGetMachine
    \/ ApiAddMachine
    \/ ApiUpdateMachine
    \/ ApiDeleteMachine

\* One host, an empty registry, no request yet; the reads of the file do
\* not fail (what a failing read does is seen in RegistrySpec).
ApiInit ==
    /\ stacksRoot = {AppName}
    /\ dockgeDir = FALSE
    /\ faults = MaxFaults
    /\ InitRun
    /\ InitRegistry

ApiSpec == ApiInit /\ [][ApiNext]_vars

\* ------------------------------ the registry, two mutations at a time
\* The endpoints of the registry run in the threads of the server and the
\* ConfigManager takes no lock: a mutation is a load of the file, a decision
\* and a save of the whole file, and the steps of two mutations interleave.
Mutation(op, id, data, step, snap, ret) ==
    [op |-> op, id |-> id, data |-> data, step |-> step, snap |-> snap,
     ret |-> ret]

\* A handler calls a method, which loads the file and decides: it returns
\* False, or goes on with the records it is going to save (add_machine: with
\* a second load).
RegBegin ==
    /\ \E t \in Handlers, op \in {"add", "update", "delete"},
          id \in MachineIds, data \in MachineDatas \cup {NoData},
          r \in BOOLEAN :
          LET ms == LoadConfig(machines, r)
              o == Apply(op, id, data, ms)
          IN /\ regThreads[t].step = "idle"
             /\ op = "add" => id = data.id
             /\ (op = "delete") = (data = NoData)
             /\ o.reason = "missing" => r
             /\ Fault(B(~r))
             /\ regThreads' =
                   [regThreads EXCEPT ![t] =
                      IF ~o.ret
                      THEN Mutation(op, id, data, "done", <<>>, FALSE)
                      ELSE IF op = "add"
                      THEN Mutation(op, id, data, "checked", <<>>, FALSE)
                      ELSE Mutation(op, id, data, "loaded", o.reg, FALSE)]
    /\ UNCHANGED <<machines, lastCall, lastReq>>
    /\ regIdle

\* add_machine after the check: the second load and the append.
RegLoadAgain ==
    /\ \E t \in Handlers, r \in BOOLEAN :
          LET m == regThreads[t]
              snap == AddedTo(LoadConfig(machines, r), m.data)
          IN /\ m.step = "checked"
             /\ Len(snap) <= MaxMachines
             /\ Fault(B(~r))
             /\ regThreads' =
                   [regThreads EXCEPT ![t] =
                      Mutation(m.op, m.id, m.data, "loaded", snap, FALSE)]
    /\ UNCHANGED <<machines, lastCall, lastReq>>
    /\ regIdle

\* _save_config writes the records the method holds over the file, and the
\* method returns True.
RegSave ==
    /\ \E t \in Handlers :
          LET m == regThreads[t] IN
          /\ m.step = "loaded"
          /\ machines' = m.snap
          /\ regThreads' =
                [regThreads EXCEPT ![t] =
                   Mutation(m.op, m.id, m.data, "done", m.snap, TRUE)]
    /\ UNCHANGED <<lastCall, lastReq, faults>>
    /\ regIdle

RegConcNext ==
    \/ RegBegin
    \/ RegLoadAgain
    \/ RegSave

\* Registries the mutations can start from (the ids are distinct).
StartRegistries == {<<>>, <<Machine("m1", 1)>>}

\* The reads of the file do not fail: what goes wrong here is the work of
\* the other handler.
RegConcInit ==
    /\ stacksRoot = {AppName}
    /\ dockgeDir = FALSE
    /\ faults = MaxFaults
    /\ InitRun
    /\ machines \in StartRegistries
    /\ lastCall = NoCall
    /\ lastReq = NoRequest
    /\ regThreads = [t \in Handlers |-> IdleMutation]

RegConcSpec == RegConcInit /\ [][RegConcNext]_vars

\* ================================================================ claims
Min(a, b) == IF a <= b THEN a ELSE b
PhaseEntries(p) == {i \in DOMAIN log : log[i].phase = p}
RunReturned == pc \in {"finally", "done"} /\ result.kind = "returned"
\* The pruning of the current run is over.
Pruned == PhaseEntries("prune") # {}

\* C1: the phases are called in the fixed order connect, prepare, archive
\* stacks, archive secondary directory, download, verify, remote cleanup,
\* pruning; when one of the first six fails no later phase is called and the
\* run returns (False, the message of that phase); a run returns success only
\* after all eight phases.
C1_FixedOrderFirstFailureReturned ==
    /\ Len(log) <= 8
    /\ \A i \in DOMAIN log :
          log[i].phase =
             <<"connect", "prepare", "stacks", "dockge", "download", "verify",
               "cleanup", "prune">>[i]
    /\ \A i \in DOMAIN log :
          (i <= 6 /\ ~log[i].ok) =>
             /\ i = Len(log)
             /\ pc \in {"finally", "done"}
             /\ result = Returned(FALSE, log[i].msg)
    /\ (RunReturned /\ result.ok) => Len(log) = 8

\* C1 witness: a run that ended with a failed verification after five
\* successful phases.
C1_Witness ==
    /\ pc = "done"
    /\ Len(log) = 6
    /\ ~log[6].ok
    /\ result = Returned(FALSE, Msg("Backup file too small", 0))

\* C2: in every run that creates a remote session close is called exactly
\* once, after the last operation of the run, whatever the outcome of the
\* phases; no operation of the session is called after close.
C2_ClosedExactlyOnceAtTheEnd ==
    /\ (pc = "done" /\ client # "absent") => closeCount = 1
    /\ pc # "done" => closeCount = 0
    /\ ~usedAfterClose

\* C2 witness: a run in which a phase raised has ended, the session closed.
C2_Witness ==
    /\ pc = "done"
    /\ closeCount = 1
    /\ client = "None"
    /\ result = Returned(FALSE, ExceptionMessage)

\* C3 (as claimed): execute_backup always ends by returning a (bool, string)
\* pair, never by an exception that reaches its caller.
C3_NoExceptionEscapes == pc = "done" => result.kind = "returned"

\* C4 (as claimed): when an archive file of the local destination tree is
\* smaller than 100 bytes at the verify phase, the run fails and neither the
\* remote cleanup nor the pruning is executed.
C4_SmallArchiveFailsRun ==
    /\ pc \in {"cleanup", "prune"} => \A f \in local : f.size >= 100
    /\ (RunReturned /\ result.ok) => \A f \in preLocal : f.size >= 100

C6_KeepsTheNewestK ==
    (Pruned /\ delFail = {}) =>
        /\ local \subseteq preLocal
        /\ \A d \in DirsOf(preLocal) :
              LET pre == FilesIn(preLocal, d)
                  post == FilesIn(local, d)
              IN /\ Cardinality(post) = Min(Cardinality(pre), keepUsed)
                 /\ \A k \in post, x \in pre \ post : k.mtime >= x.mtime

\* C6 witness: a directory held two archives of different age, the retention
\* count was 1, the newer one is what remains.
C6_Witness ==
    /\ Pruned
    /\ delFail = {}
    /\ keepUsed = 1
    /\ \E k \in local, x \in preLocal \ local : k.src = x.src /\ k.mtime > x.mtime

\* C7: a deletion that fails does not end the pruning: the file stays, every
\* other excess file of every directory is deleted, none of the K newest
\* files of a directory is deleted, and the run returns success.
C7_FailedDeletionDoesNotAbort ==
    Pruned =>
        /\ RunReturned /\ result.ok
        /\ delFail \subseteq local
        /\ local \subseteq preLocal
        /\ \A d \in DirsOf(preLocal) :
              LET pre == FilesIn(preLocal, d)
                  post == FilesIn(local, d)
                  stuck == FilesIn(delFail, d)
              IN /\ Cardinality(post) =
                        Min(Cardinality(pre), keepUsed) + Cardinality(stuck)
                 /\ \A k \in post \ stuck, x \in (pre \ post) \cup stuck :
                        k.mtime >= x.mtime

\* C7 witness: with retention count 1 one deletion failed and another excess
\* file was deleted all the same.
C7_Witness ==
    /\ pc = "done"
    /\ keepUsed = 1
    /\ delFail # {}
    /\ preLocal \ local # {}
    /\ result.ok

\* C8 (as claimed): any two runs against the machine use distinct timestamp
\* tokens.
C8_TokensDistinct ==
    \A i \in DOMAIN tokens, j \in DOMAIN tokens : i # j => tokens[i] # tokens[j]

\* C9: when the remote cleanup fails after a successful verification, a
\* warning is recorded, the pruning is still executed and the run returns
\* success.
C9_CleanupFailureIsOnlyAWarning ==
    \A i \in PhaseEntries("cleanup") :
        ~log[i].ok =>
            /\ "cleanup" \in warnings
            /\ \A j \in 1..(i - 1) : log[j].ok
            /\ pc \in {"prune", "finally", "done"}
            /\ pc # "prune" =>
                  /\ Pruned
                  /\ result = Returned(TRUE, Msg("Backup completed successfully", 0))

\* C9 witness: a finished run whose remote cleanup failed.
C9_Witness ==
    /\ pc = "done"
    /\ Len(log) = 8
    /\ ~log[7].ok
    /\ result.ok

\* C10 (as claimed): the download of the scratch directory reports failure
\* when an entry at any depth was not transferred, so the download phase
\* fails the run whenever an archive of a per-source subdirectory is missing.
C10_DownloadFailsOnAnyEntry ==
    \A i \in PhaseEntries("download") : log[i].ok => ~xferFailed

\* C11: with neither a usable key (a key path that is set and exists) nor a
\* password, connect returns false without a call to the network, and the run
\* returns the connect failure with no remote command issued: connect is the
\* only phase called and nothing is written to the remote host.
C11_NoCredentialsNoNetwork ==
    auth = "none" =>
        /\ netCalls = 0
        /\ client \in {"created", "None"}
        /\ pc \in {"finally", "done"}
        /\ result = Returned(FALSE, Msg("Failed to connect to host", 0))
        /\ log = <<Entry("connect", FALSE, Msg("Failed to connect to host", 0))>>
        /\ ~sftp

\* C11 witness: a run without credentials has ended.
C11_Witness ==
    /\ pc = "done"
    /\ auth = "none"
    /\ netCalls = 0
    /\ ~result.ok

C13_MissingConfigurationIs400 ==
    (/\ response # NoResponse
     /\ \/ req = "noType"
        \/ result = Returned(FALSE,
                Msg("local_backup_dir not configured for machine", 0)))
        => response.status = 400

\* C14 (as claimed): the secondary-directory phase is a skipped success, with
\* no archive, when the directory is absent; when the directory is present the
\* archive dockge_<token>.tar.gz is in the directory's own subdirectory of the
\* scratch directory after a successful phase, and a failed archive command
\* fails the run.
C14_PresentDirectoryIsArchived ==
    \A i \in PhaseEntries("dockge") :
        /\ ~dockgeDir =>
              /\ log[i] = Entry("dockge", TRUE,
                                Msg("Dockge directory not found (skipped)", 0))
              /\ (Len(log) = i /\ result = NoResult) => pc = "download"
        /\ (dockgeDir /\ log[i].ok /\ Len(log) = i) =>
              /\ DockgeName \in rdirs
              /\ Cardinality({f \in rfiles :
                                 f.src = DockgeName /\ f.tok = timestamp}) = 1
        /\ ~log[i].ok =>
              /\ Len(log) = i
              /\ result = Returned(FALSE, Msg("Failed to backup Dockge directory", 0))

\* C15: on a session without a transport that connected and without an open
\* sub-channel (connect never called, connect failed, or close called), exec
\* returns the exit code -1, download_tree and delete_tree return false, and
\* neither the remote host nor the local tree changes.
C15_NothingWorksUnconnected ==
    (/\ lastOp.op \in {"exec", "download", "delete"}
     /\ lastOp.preClient # "connected"
     /\ ~lastOp.preSftp)
        => /\ ~lastOp.effect
           /\ lastOp.op = "exec" => lastOp.ret = Ret("exit", -1)
           /\ lastOp.op \in {"download", "delete"} => lastOp.ret = Ret("bool", 0)

\* C15 witness: a delete_tree after close, with archives on the remote host,
\* returned false and the archives are still there.
C15_Witness ==
    /\ lastOp.op = "delete"
    /\ lastOp.preClient = "None"
    /\ closeCount > 0
    /\ rfiles # {}
    /\ lastOp.ret = Ret("bool", 0)

\* C16: a call of close that returns leaves the session without transport and
\* without sub-channel, from every state of the session; it released the
\* sub-channel, when there was one, before the transport, when there was
\* one; on a closed session it releases nothing and changes nothing.
C16_CloseIsIdempotent ==
    (lastOp.op = "close" /\ lastOp.ret = Ret("none", 0)) =>
        /\ client = "None"
        /\ ~sftp
        /\ released =
              (IF lastOp.preSftp THEN <<"sftp">> ELSE <<>>)
                 \o (IF lastOp.preClient # "None" THEN <<"transport">> ELSE <<>>)
        /\ (lastOp.preClient = "None" /\ ~lastOp.preSftp) => released = <<>>

\* C16 witness: a second close, on the session the first one closed after a
\* connection with an open sub-channel.
C16_Witness ==
    /\ lastOp.op = "close"
    /\ lastOp.ret = Ret("none", 0)
    /\ closeCount = 2
    /\ lastOp.preClient = "None"
    /\ ~lastOp.preSftp
    /\ released = <<>>
    /\ local # {}

\* C17 (as claimed): no operation of a session ends with an exception.
C17_NoOperationRaises == lastOp.ret.kind # "raised"

\* A handler has archived the stack of the host and not yet downloaded it.
HoldsArchive(t) ==
    /\ t.pc \in {"dockge", "download"}
    /\ Len(t.log) >= 3
    /\ t.log[3] = Entry("stacks", TRUE, Msg("Backed up stacks", 1))
ArchiveOf(t) == {f \in rfiles : f.src = AppName /\ f.tok = t.timestamp}

\* C18: nothing serializes the runs of one machine: two handlers are inside
\* their phase sequences at the same time and share the scratch directory and
\* the local tree.  In an environment without faults, the archive a run has
\* written is still in the scratch directory when the run comes to download
\* it, unless another run was started meanwhile (whose cleanup removed it).
C18_ArchiveLostOnlyToAnotherRun ==
    \A t \in {Thread, other} :
        (HoldsArchive(t) /\ ArchiveOf(t) = {}) => runs >= 2

\* C18 witness: a run is about to download, its archive is gone from the
\* scratch directory, and the other handler, still inside its own phase
\* sequence, has just completed its remote cleanup.
C18_Witness ==
    /\ HoldsArchive(Thread)
    /\ pc = "download"
    /\ ArchiveOf(Thread) = {}
    /\ other.pc = "prune"
    /\ other.log[7] = Entry("cleanup", TRUE, Msg("Remote cleanup successful", 0))

\* C19: the permissions are set only after a successful download and before
\* the verification; when that fails, a warning is logged, the download phase
\* reports success and the run goes on to verify: it can still fail, but only
\* in a later phase and with that phase's message.
C19_ChmodFailureIsOnlyAWarning ==
    "chmod" \in warnings =>
        /\ Len(log) >= 5
        /\ log[5] = Entry("download", TRUE, Msg("Backups downloaded successfully", 0))
        /\ Len(log) = 5 => (pc = "verify" /\ result = NoResult)
        /\ (RunReturned /\ ~result.ok) =>
              /\ Len(log) > 5
              /\ result.msg = log[Len(log)].msg

\* C19 witness: a run whose chmod failed has ended in success.
C19_Witness ==
    /\ pc = "done"
    /\ "chmod" \in warnings
    /\ result = Returned(TRUE, SuccessMessage)

\* C20: a run generates its token once, when connect has succeeded and before
\* it writes an archive; every archive the run writes (one per stack
\* directory, and the one of the secondary directory) is <source>_<token>.tar.gz
\* in the subdirectory <source> of the scratch directory, with that token.
C20_OneTokenInEveryArchive ==
    /\ Len(tokens) <= runs
    /\ pc \in {"idle", "connect", "prepare", "list"} => made = {}
    /\ made # {} => (tokens # <<>> /\ tokens[Len(tokens)] = timestamp)
    /\ \A f \in made :
          /\ f.tok = timestamp
          /\ f.src \in stacksRoot \cup {DockgeName}
          /\ \A g \in made : g.src = f.src => g = f
          /\ pc \in {"stack", "dockge", "download", "verify", "cleanup"} =>
                (f \in rfiles /\ f.src \in rdirs)
    /\ (Len(log) >= 3 /\ log[3].ok) => stacksRoot \subseteq {f.src : f \in made}
    /\ (Len(log) >= 4 /\ log[4] = Entry("dockge", TRUE,
                                          Msg("Backed up Dockge directory", 0)))
          => DockgeName \in {f.src : f \in made}

\* C20 witness: a second run, in a later second than the first, has written
\* the archives of a stack and of the secondary directory, both with its own
\* token, beside an archive the first run left in the scratch directory.
C20_Witness ==
    /\ pc = "download"
    /\ Cardinality(made) = 2
    /\ \E f \in made : f.src = DockgeName
    /\ \E g \in rfiles : g.tok # timestamp

\* C21 (as claimed): a remote command of the prepare, archive-stacks or
\* archive-secondary phase (the mkdir of the scratch directory, the listing,
\* the mkdir of a source's subdirectory, the existence check, tar) that ends
\* with a nonzero exit code or a transport fault fails its phase and the run.
C21_CommandErrorFailsThePhase ==
    cmdErrors # {} =>
        /\ pc \in {"finally", "done"}
        /\ Len(log) \in 2..4
        /\ ~log[Len(log)].ok
        /\ result = Returned(FALSE, log[Len(log)].msg)

\* C22: a run calls the deletion of the remote scratch directory only after
\* its verification has succeeded; a run that fails has not called it, and
\* as long as a run has not called it the archives the run has written are
\* in the scratch directory, each in the subdirectory of its source.
C22_RemoteDeletionOnlyAfterVerify ==
    /\ PhaseEntries("cleanup") # {} =>
          /\ Len(log) >= 7
          /\ log[6].phase = "verify"
          /\ \A i \in 1..6 : log[i].ok
    /\ (RunReturned /\ ~result.ok) => PhaseEntries("cleanup") = {}
    /\ PhaseEntries("cleanup") = {} =>
          /\ made \subseteq rfiles
          /\ {f.src : f \in made} \subseteq rdirs

\* C22 witness: a run has failed in the download phase; the two archives it
\* had written are still in the scratch directory.
C22_Witness ==
    /\ pc = "done"
    /\ Len(log) = 5
    /\ ~log[5].ok
    /\ Cardinality(made) = 2
    /\ made \subseteq rfiles

\* The paths of the archives of a local tree.
LocalPaths(L) == {<<f.src, f.tok>> : f \in L}

\* C23: a run that returns failure (or ends in an exception) has not called
\* the pruning, and a step removes a path from the local destination tree
\* only when it is the pruning of a run whose connect, prepare, two archive
\* phases, download and verification have all succeeded, and which returns
\* success.
C23_OnlyASuccessfulRunPrunes ==
    /\ [](/\ Pruned => (Len(log) = 8 /\ \A i \in 1..6 : log[i].ok)
          /\ (pc \in {"finally", "done"} /\ ~result.ok) =>
                (~Pruned /\ preLocal = {} /\ delFail = {}))
    /\ [][LocalPaths(local) \subseteq LocalPaths(local')
            \/ (/\ pc = "prune"
                /\ Len(log) = 7
                /\ \A i \in 1..6 : log[i].ok
                /\ result' = Returned(TRUE, SuccessMessage))]_vars

\* C23 witness: the second run has failed in the verification, after its
\* download; an archive of the first run is still in the local tree.
C23_Witness ==
    /\ pc = "done"
    /\ runs = 2
    /\ Len(log) = 6
    /\ result = Returned(FALSE, log[6].msg)
    /\ \E f \in local : f.tok # timestamp

\* C24 (as claimed): after a run that returns success with a retention count
\* of at least 1, every archive the run has written and downloaded is in the
\* local destination tree: the pruning of the run deletes none of them, also
\* when the download brought archives along that earlier failed runs had
\* left in the scratch directory.
C24_OwnArchivesSurviveThePruning ==
    (/\ pc = "done"
     /\ result.kind = "returned"
     /\ result.ok
     /\ keepUsed >= 1
     /\ \A f \in made : \E g \in preLocal : SamePath(f, g))
        => \A f \in made : \E g \in local : SamePath(f, g)

\* C25 (as claimed): a run returns success only if at least one archive that
\* the run itself has written (it carries the token of the run) has been
\* downloaded into the local destination tree and has passed the
\* verification; what earlier runs left there does not make a run succeed.
C25_SuccessNeedsAnArchiveOfTheRun ==
    (pc = "done" /\ result.kind = "returned" /\ result.ok) =>
        \E f \in made :
            \E g \in preLocal :
                /\ SamePath(f, g)
                /\ g.size = f.size
                /\ GlobMatches(g)
                /\ g.size >= MinSize

\* No two records of ms have the same id.
DistinctIds(ms) ==
    \A i \in DOMAIN ms : \A j \in DOMAIN ms : ms[i].id = ms[j].id => i = j
IdsOf(ms) == [i \in DOMAIN ms |-> ms[i].id]

\* C26 (as claimed): with the methods called one at a time, no two records of
\* the registry share an id; add_machine returns True only for an id that no
\* record had before the call; update_machine leaves the ids of the records
\* as they were, whatever id the new data carries; delete_machine removes
\* exactly the records with the given id.
C26_IdsStayDistinct ==
    /\ DistinctIds(machines)
    /\ (lastCall.op = "add" /\ lastCall.ret) => ~HasId(lastCall.pre, lastCall.id)
    /\ lastCall.op = "update" => IdsOf(machines) = IdsOf(lastCall.pre)
    /\ (lastCall.op = "delete" /\ lastCall.ret) =>
          machines = Deleted(lastCall.pre, lastCall.id)
    /\ (lastCall.op = "delete" /\ ~lastCall.ret) => machines = lastCall.pre

MutationsDone == \A t \in Handlers : regThreads[t].step = "done"
\* What the mutation of handler t did is in the registry: the record it
\* added or wrote, or no record of the id it deleted.
EffectPresent(t) ==
    LET m == regThreads[t] IN
    IF m.op = "delete" THEN ~HasId(machines, m.id)
    ELSE \E i \in DOMAIN machines : machines[i] = Machine(m.id, m.data.v)

\* C27 (as claimed): however the loads and saves of two concurrent registry
\* requests interleave, two add_machine calls with the same id do not both
\* return True and the id is then in the registry once, and no mutation that
\* returned True is lost to the save of the other request: when the two
\* requests are about different ids, what each successful one did is in the
\* registry after both have returned.
C27_NoMutationIsLost ==
    MutationsDone =>
        /\ (/\ regThreads[1].op = "add"
            /\ regThreads[2].op = "add"
            /\ regThreads[1].id = regThreads[2].id) =>
               /\ ~(regThreads[1].ret /\ regThreads[2].ret)
               /\ DistinctIds(machines)
        /\ \A t \in Handlers : \A u \in Handlers :
              (regThreads[t].ret /\ regThreads[u].id # regThreads[t].id) =>
                  EffectPresent(t)

\* C29 (as claimed): the handler of a protected endpoint is called only when
\* the Authorization header is exactly "Bearer " followed by the configured
\* token; for every other header, and without one, the answer is 401, no
\* backup run is started and the registry is neither read nor written.
C29_OnlyTheExactHeaderIsAccepted ==
    IF lastReq.header = <<Bearer, ApiToken>>
    THEN lastReq.handled /\ lastReq.status # 401
    ELSE lastReq.ep # "none" =>
           /\ ~lastReq.handled
           /\ lastReq.status = 401
           /\ ~lastReq.started
           /\ lastReq.reads = 0
           /\ ~lastReq.wrote

====
